---- MODULE Spec2Model ----
(***************************************************************************)
(* logos-format: a wrapper that lets clang-format work on Logos sources.   *)
(* The Logos directives (%hook, %end, ...) are rewritten to @logosformat   *)
(* markers, clang-format runs on the rewritten text, and the markers are   *)
(* rewritten back.                                                         *)
(*                                                                         *)
(* Text is a sequence of one-character strings, so that the substring      *)
(* tests, the regular expression and the replacements of the source are    *)
(* computed character by character.                                        *)
(***************************************************************************)
EXTENDS Integers, Sequences, FiniteSets, TLC

(***************************************************************************)
(* Bounds of the model.                                                    *)
(***************************************************************************)
\* the longest text of the token mapper's specification, in pieces
MaxPieces == 3
\* the longest argument list of the pipeline's specification
MaxArgs == 3

(***************************************************************************)
(* Python's str and re primitives the source uses.                         *)
(***************************************************************************)
\* \w of a Python 3 str pattern, over the characters the model writes
WordChars ==
    { "a", "b", "c", "d", "e", "f", "g", "h", "i", "j", "k", "l", "m",
      "n", "o", "p", "q", "r", "s", "t", "u", "v", "w", "x", "y", "z",
      "A", "B", "C", "D", "E", "F", "G", "H", "I", "J", "K", "L", "M",
      "N", "O", "P", "Q", "R", "S", "T", "U", "V", "W", "X", "Y", "Z",
      "0", "1", "2", "3", "4", "5", "6", "7", "8", "9", "_" }

\* t occurs in s at position i
OccursAt(s, t, i) ==
    /\ i >= 1
    /\ i + Len(t) - 1 <= Len(s)
    /\ SubSeq(s, i, i + Len(t) - 1) = t

\* Python's `t in s` for a non-empty t
StrIn(t, s) == \E i \in 1..Len(s) : OccursAt(s, t, i)

\* Python's s.replace(old, new): every occurrence, left to right, not overlapping
RECURSIVE StrReplaceFrom(_, _, _, _)
StrReplaceFrom(s, old, new, i) ==
    IF i > Len(s) THEN << >>
    ELSE IF OccursAt(s, old, i)
         THEN new \o StrReplaceFrom(s, old, new, i + Len(old))
         ELSE << s[i] >> \o StrReplaceFrom(s, old, new, i + 1)

StrReplace(s, old, new) == StrReplaceFrom(s, old, new, 1)

\* file.readlines(): the text cut after each line feed, the line feeds kept
RECURSIVE ReadLinesFrom(_, _, _)
ReadLinesFrom(s, start, i) ==
    IF i > Len(s)
    THEN IF start > Len(s) THEN << >> ELSE << SubSeq(s, start, Len(s)) >>
    ELSE IF s[i] = "\n"
         THEN << SubSeq(s, start, i) >> \o ReadLinesFrom(s, i + 1, i + 1)
         ELSE ReadLinesFrom(s, start, i + 1)

readlines(s) == ReadLinesFrom(s, 1, 1)

\* the lines written one after the other
RECURSIVE WriteAll(_)
WriteAll(lines) ==
    IF lines = << >> THEN << >> ELSE Head(lines) \o WriteAll(Tail(lines))

(***************************************************************************)
(* The directive catalogs.                                                 *)
(***************************************************************************)
specialFilterList ==
    << << "%", "h", "o", "o", "k" >>,
       << "%", "e", "n", "d" >>,
       << "%", "n", "e", "w" >>,
       << "%", "g", "r", "o", "u", "p" >>,
       << "%", "s", "u", "b", "c", "l", "a", "s", "s" >> >>

filterList ==
    << << "%", "p", "r", "o", "p", "e", "r", "t", "y" >>,
       << "%", "c", "o", "n", "f", "i", "g" >>,
       << "%", "h", "o", "o", "k", "f" >>,
       << "%", "c", "t", "o", "r" >>,
       << "%", "d", "t", "o", "r" >>,
       << "%", "i", "n", "i", "t" >>,
       << "%", "c" >>,
       << "%", "o", "r", "i", "g" >>,
       << "%", "l", "o", "g" >> >>

\* the marker's prefix, "@logosformat"
Marker == << "@", "l", "o", "g", "o", "s", "f", "o", "r", "m", "a", "t" >>

\* the directive's prefix, "%"
Percent == << "%" >>

\* the statement terminator, ";"
Semicolon == << ";" >>

\* compile_logos_token_pat(token) matches at i: the token, then \b. The token
\* ends in a word character, so \b holds at the end of the text or before a
\* character that is not a word character.
PatMatchesAt(token, s, i) ==
    /\ OccursAt(s, token, i)
    /\ \/ i + Len(token) > Len(s)
       \/ s[i + Len(token)] \notin WordChars

\* re.sub(pat, r"@logosformat\1", line): group 1 is the token without its "%"
RECURSIVE ReSubFrom(_, _, _)
ReSubFrom(token, s, i) ==
    IF i > Len(s) THEN << >>
    ELSE IF PatMatchesAt(token, s, i)
         THEN Marker \o Tail(token) \o ReSubFrom(token, s, i + Len(token))
         ELSE << s[i] >> \o ReSubFrom(token, s, i + 1)

ReSub(token, s) == ReSubFrom(token, s, 1)

(***************************************************************************)
(* logos_to_norm and norm_to_logos.                                        *)
(***************************************************************************)
\* the first loop of logos_to_norm's body, from the k-th token of filterList on
RECURSIVE FilterPass(_, _)
FilterPass(line, k) ==
    IF k > Len(filterList) THEN line
    ELSE FilterPass(IF StrIn(filterList[k], line)
                    THEN ReSub(filterList[k], line)
                    ELSE line, k + 1)

\* SpecialStep with the terminator appended only where the pattern matched
SpecialStepOnMatch(line, token) ==
    IF ReSub(token, line) # line THEN ReSub(token, line) \o Semicolon ELSE line

\* what one token of specialFilterList does to the line
SpecialStep(line, token) ==
    IF StrIn(token, line) THEN ReSub(token, line) \o Semicolon ELSE line

\* the second loop, from the k-th token of specialFilterList on
RECURSIVE SpecialPass(_, _)
SpecialPass(line, k) ==
    IF k > Len(specialFilterList) THEN line
    ELSE SpecialPass(SpecialStep(line, specialFilterList[k]), k + 1)

\* the body of logos_to_norm's loop: one line of the Logos file
LogosToNormLine(line) == SpecialPass(FilterPass(line, 1), 1)

\* any(token in line for token in specialFilterList)
AnySpecialIn(line) ==
    \E k \in 1..Len(specialFilterList) : StrIn(specialFilterList[k], line)

\* Unmark with only the last terminator of the line taken away
UnmarkLastTerminator(line) ==
    LET l == StrReplace(line, Marker, Percent)
        at == { i \in 1..Len(l) : l[i] = ";" }
        last == CHOOSE i \in at : \A j \in at : j <= i
    IN  IF AnySpecialIn(l) /\ at # { }
        THEN SubSeq(l, 1, last - 1) \o SubSeq(l, last + 1, Len(l))
        ELSE l

\* what norm_to_logos does to a line that holds a marker
Unmark(line) ==
    LET l == StrReplace(line, Marker, Percent)
    IN  IF AnySpecialIn(l) THEN StrReplace(l, Semicolon, << >>) ELSE l

\* the body of norm_to_logos's loop: one line of the normalised file
NormToLogosLine(line) ==
    IF StrIn(Marker, line) THEN Unmark(line) ELSE line

RECURSIVE MapLines(_, _)
MapLines(lines, fwd) ==
    IF lines = << >> THEN << >>
    ELSE << IF fwd THEN LogosToNormLine(Head(lines))
                   ELSE NormToLogosLine(Head(lines)) >>
         \o MapLines(Tail(lines), fwd)

\* the text logos_to_norm writes for the text it reads
logos_to_norm(text) == WriteAll(MapLines(readlines(text), TRUE))

\* the text norm_to_logos writes for the text it reads
norm_to_logos(text) == WriteAll(MapLines(readlines(text), FALSE))

(***************************************************************************)
(* The token mapper on its own: a Logos text is normalised and the result  *)
(* is turned back, or a text is handed to norm_to_logos directly (what the *)
(* pipeline does with the formatter's output).                             *)
(***************************************************************************)
VARIABLES
    input,   \* the text the mapper reads
    norm,   \* what logos_to_norm wrote for it
    back,   \* what norm_to_logos wrote for norm
    rev,    \* what norm_to_logos wrote for input itself
    mpc     \* "read", "normed", "done", "reversed"; "idle" in the pipeline

mvars == << input, norm, back, rev, mpc >>

\* the pieces the texts of the mapper's specification are put together from
Pieces ==
    { specialFilterList[1],   \* %hook
      specialFilterList[2],   \* %end
      filterList[9],          \* %log
      << "f" >>,              \* a word character: %hookf, %endf, %logf
      << " " >>,
      Semicolon,
      << "\n" >>,
      Marker }

RECURSIVE TextsUpTo(_)
TextsUpTo(n) ==
    IF n = 0 THEN { << >> }
    ELSE LET shorter == TextsUpTo(n - 1)
         IN  shorter \cup { t \o p : t \in shorter, p \in Pieces }

Texts == TextsUpTo(MaxPieces)

(***************************************************************************)
(* The pipeline: main and real_main.  The logger's output is not part of   *)
(* the state, so --verbose-logos, which changes nothing else, is left out. *)
(***************************************************************************)
VARIABLES
    args,       \* clang_format_args: what parse_known_intermixed_args left over
    version,    \* logos_format_args.version
    in_place,   \* logos_format_args.in_place
    save_temps, \* logos_format_args.save_logos_temps
    pc,         \* where the run is
    idx,        \* the position of the loop the run is in
    disk,       \* the text of each file of the working directory
    workspace,  \* the temporary directory: "none", "present", "deleted", "kept"
    tmp,        \* the temporary files, in the order they were created
    new_cf_args,              \* the formatter's arguments, built up
    tmp_norm_to_tmp_logos,    \* the dict of line 163, in insertion order
    tmp_logos_to_orig_logos,  \* the dict of line 164, in insertion order
    cf_cmd,     \* the arguments of each formatter process spawned
    cf_returncode,  \* << >>, or the exit code of the formatter's process in << >>
    cf_stdout,  \* cf_res.stdout
    stdout,     \* what the run printed
    rc,         \* << >> while main runs, then what it returned in << >>
    outcome,    \* how the run ended
    failed_at,  \* pc when an exception or an interrupt ended the run
    disk0,      \* history: disk when the process started
    opens,      \* history: how often each file was opened for writing
    writes,     \* history: how often each file's new text was written
    transforms, \* history: how often logos_to_norm read each file
    reversed    \* history: the temporary files norm_to_logos has written

pvars ==
    << args, version, in_place, save_temps, pc, idx, disk, workspace, tmp,
       new_cf_args, tmp_norm_to_tmp_logos, tmp_logos_to_orig_logos, cf_cmd,
       cf_returncode, cf_stdout, stdout, rc, outcome, failed_at, disk0, opens,
       writes, transforms, reversed >>

vars == << pvars, mvars >>

\* a path as path.Path sees it: n numbers the temporary files, 0 for the user's
UserPath(stem, ext) == [dir |-> "cwd", stem |-> stem, ext |-> ext, n |-> 0]

TmpPath(n) == [dir |-> "tmp", stem |-> tmp[n].stem, ext |-> tmp[n].ext, n |-> n]

A_xm == UserPath("a", ".xm")
B_x == UserPath("b", ".x")
\* a Logos file that cannot be written
C_xi == UserPath("c", ".xi")
\* a Logos file that cannot be read
U_xmi == UserPath("u", ".xmi")
\* an Objective-C file, which clang-format knows
D_m == UserPath("d", ".m")
\* an option of clang-format
StyleOpt == UserPath("-style=file", "")
\* the option real_main puts first in in-place mode
InPlaceOpt == UserPath("-i", "")

Files == { A_xm, B_x, C_xi, U_xmi, D_m }

ArgUniverse == Files \cup { StyleOpt }

RECURSIVE ArgLists(_)
ArgLists(n) ==
    IF n = 0 THEN { << >> }
    ELSE LET shorter == ArgLists(n - 1)
         IN  shorter \cup { Append(l, a) : l \in { x \in shorter : Len(x) = n - 1 },
                                           a \in ArgUniverse }

\* the files' text when the process starts
InitialText(f) ==
    CASE f = A_xm -> << "%", "h", "o", "o", "k", "\n" >>
      [] f = B_x -> << "%", "l", "o", "g", ";" >>
      [] f = C_xi -> << "%", "e", "n", "d" >>
      [] f = U_xmi -> << "%", "c", ";" >>
      [] OTHER -> << "x", ";", "\n" >>

\* path.isfile()
isfile(path) == path \in Files

\* path.access(os.R_OK)
access_R_OK(path) == path \in Files \ { U_xmi }

\* path.access(os.W_OK)
access_W_OK(path) == path \in Files \ { C_xi }

logos_extensions == { ".x", ".xi", ".xm", ".xmi" }

logos_extensions_to_normal_extensions(ext) ==
    CASE ext = ".x" -> ".m"
      [] ext = ".xi" -> ".m"
      [] ext = ".xm" -> ".mm"
      [] ext = ".xmi" -> ".mm"

\* get_logos_path without the check of line 112
get_logos_path_readable_only(arg) ==
    IF isfile(arg) /\ arg.ext \in logos_extensions
    THEN IF ~access_R_OK(arg) THEN "PermissionError" ELSE "path"
    ELSE "None"

\* get_logos_path(arg): "path" for the path, "None", or "PermissionError"
get_logos_path(arg) ==
    IF isfile(arg) /\ arg.ext \in logos_extensions
    THEN IF ~access_R_OK(arg) THEN "PermissionError"
         ELSE IF ~access_W_OK(arg) THEN "PermissionError"
         ELSE "path"
    ELSE "None"

\* SaveableTempDir.__exit__: with save the directory stays; without, it is
\* left to TempDir.__exit__ of the path library, which removes the tree
TempDirExit(save) == IF save THEN "kept" ELSE "deleted"

\* main's return value for what real_main raised
MainReturn(exc) == IF exc = "KeyboardInterrupt" THEN 0 ELSE 1

\* the argument put first instead of last
CfArgsPrepend(list, arg) == << arg >> \o list

\* list.append, as line 201 and line 203 use it on new_cf_args
CfArgsAppend(list, arg) == Append(list, arg)

MapperIdle ==
    /\ input = << >>
    /\ norm = << >>
    /\ back = << >>
    /\ rev = << >>
    /\ mpc = "idle"

Init ==
    /\ args \in ArgLists(MaxArgs)
    /\ version \in BOOLEAN
    /\ in_place \in BOOLEAN
    /\ save_temps \in BOOLEAN
    /\ pc = "start"
    /\ idx = 0
    /\ disk = [f \in Files |-> InitialText(f)]
    /\ disk0 = [f \in Files |-> InitialText(f)]
    /\ workspace = "none"
    /\ tmp = << >>
    /\ new_cf_args = << >>
    /\ tmp_norm_to_tmp_logos = << >>
    /\ tmp_logos_to_orig_logos = << >>
    /\ cf_cmd = << >>
    /\ cf_returncode = << >>
    /\ cf_stdout = << >>
    /\ stdout = << >>
    /\ rc = << >>
    /\ outcome = "running"
    /\ failed_at = "none"
    /\ opens = [f \in Files |-> 0]
    /\ writes = [f \in Files |-> 0]
    /\ transforms = [f \in Files |-> 0]
    /\ reversed = { }
    /\ MapperIdle

PipelineIdle ==
    /\ args = << >>
    /\ version = FALSE
    /\ in_place = FALSE
    /\ save_temps = FALSE
    /\ pc = "idle"
    /\ idx = 0
    /\ disk = [f \in Files |-> InitialText(f)]
    /\ disk0 = [f \in Files |-> InitialText(f)]
    /\ workspace = "none"
    /\ tmp = << >>
    /\ new_cf_args = << >>
    /\ tmp_norm_to_tmp_logos = << >>
    /\ tmp_logos_to_orig_logos = << >>
    /\ cf_cmd = << >>
    /\ cf_returncode = << >>
    /\ cf_stdout = << >>
    /\ stdout = << >>
    /\ rc = << >>
    /\ outcome = "running"
    /\ failed_at = "none"
    /\ opens = [f \in Files |-> 0]
    /\ writes = [f \in Files |-> 0]
    /\ transforms = [f \in Files |-> 0]
    /\ reversed = { }

\* the run ends: the with statement's __exit__, then main returns
Return(code, how) ==
    /\ pc' = "done"
    /\ rc' = << code >>
    /\ outcome' = how
    /\ workspace' = IF workspace = "present" THEN TempDirExit(save_temps)
                    ELSE workspace

\* the loop of line 165 goes on with argument k, or is over
ClassifyFrom(k) == IF k <= Len(args) THEN "classify" ELSE "invoke"

\* lines 139-145: --version
ShowVersion ==
    /\ pc = "start"
    /\ version
    /\ Return(0, "version")
    /\ UNCHANGED << mvars, args, version, in_place, save_temps, idx, disk, tmp,
                    new_cf_args, tmp_norm_to_tmp_logos, tmp_logos_to_orig_logos,
                    cf_cmd, cf_returncode, cf_stdout, stdout, failed_at, disk0,
                    opens, writes, transforms, reversed >>

\* line 157: the temporary directory is made, and the loop of line 165 begins
CreateWorkspace ==
    /\ pc = "start"
    /\ ~version
    /\ workspace' = "present"
    /\ idx' = 1
    /\ pc' = ClassifyFrom(1)
    /\ UNCHANGED << mvars, args, version, in_place, save_temps, disk, tmp, new_cf_args,
                    tmp_norm_to_tmp_logos, tmp_logos_to_orig_logos, cf_cmd,
                    cf_returncode, cf_stdout, stdout, rc, outcome, failed_at,
                    disk0, opens, writes, transforms, reversed >>

\* lines 166, 202-203: an argument that is no Logos file goes to the formatter as it is
PassThroughArg ==
    /\ pc = "classify"
    /\ get_logos_path(args[idx]) = "None"
    /\ new_cf_args' = CfArgsAppend(new_cf_args, args[idx])
    /\ idx' = idx + 1
    /\ pc' = ClassifyFrom(idx + 1)
    /\ UNCHANGED << mvars, args, version, in_place, save_temps, disk, workspace, tmp,
                    tmp_norm_to_tmp_logos, tmp_logos_to_orig_logos, cf_cmd,
                    cf_returncode, cf_stdout, stdout, rc, outcome, failed_at,
                    disk0, opens, writes, transforms, reversed >>

\* lines 110-113: get_logos_path raises, inside the with statement of line 157
PermissionDenied ==
    /\ pc = "classify"
    /\ get_logos_path(args[idx]) = "PermissionError"
    /\ failed_at' = pc
    /\ Return(MainReturn("PermissionError"), "permission_error")
    /\ UNCHANGED << mvars, args, version, in_place, save_temps, idx, disk, tmp,
                    new_cf_args, tmp_norm_to_tmp_logos, tmp_logos_to_orig_logos,
                    cf_cmd, cf_returncode, cf_stdout, stdout, disk0, opens,
                    writes, transforms, reversed >>

\* lines 167-201: a Logos file is normalised into a temporary file of its own
TransformArg ==
    /\ pc = "classify"
    /\ get_logos_path(args[idx]) = "path"
    /\ LET orig_logos == args[idx]
           norm_ext == logos_extensions_to_normal_extensions(orig_logos.ext)
           n_norm == Len(tmp) + 1
           n_logos == Len(tmp) + 2
           tmp_norm == [kind |-> "norm", stem |-> orig_logos.stem,
                        ext |-> norm_ext,
                        text |-> logos_to_norm(disk[orig_logos])]
           tmp_logos == [kind |-> "logos", stem |-> orig_logos.stem,
                         ext |-> orig_logos.ext, text |-> << >>]
           tmp_norm_unformatted == [tmp_norm EXCEPT !.kind = "unformatted"]
       IN  /\ tmp' = tmp \o << tmp_norm >>
                         \o (IF in_place THEN << tmp_logos >> ELSE << >>)
                         \o (IF save_temps /\ ~in_place
                             THEN << tmp_norm_unformatted >> ELSE << >>)
           /\ tmp_norm_to_tmp_logos' =
                  IF in_place
                  THEN Append(tmp_norm_to_tmp_logos, << n_norm, n_logos >>)
                  ELSE tmp_norm_to_tmp_logos
           /\ tmp_logos_to_orig_logos' =
                  IF in_place
                  THEN Append(tmp_logos_to_orig_logos, << n_logos, orig_logos >>)
                  ELSE tmp_logos_to_orig_logos
           /\ transforms' = [transforms EXCEPT ![orig_logos] = @ + 1]
           /\ new_cf_args' =
                  CfArgsAppend(new_cf_args,
                               [dir |-> "tmp", stem |-> tmp_norm.stem,
                                ext |-> tmp_norm.ext, n |-> n_norm])
    /\ idx' = idx + 1
    /\ pc' = ClassifyFrom(idx + 1)
    /\ UNCHANGED << mvars, args, version, in_place, save_temps, disk, workspace, cf_cmd,
                    cf_returncode, cf_stdout, stdout, rc, outcome, failed_at,
                    disk0, opens, writes, reversed >>

(***************************************************************************)
(* clang-format, which the source runs and does not contain: it rewrites   *)
(* the text of the files it is given in one of a few ways.                 *)
(***************************************************************************)
FormatStyles == { "keep", "join" }

\* "keep" leaves the text as it is; "join" moves a terminator that stands at
\* the start of a line to the end of the line before
Format(style, text) ==
    IF style = "join" THEN StrReplace(text, << "\n", ";" >>, << ";", "\n" >>)
    ELSE text

\* the exit codes of a formatter that failed
FormatterCodes == { 1, 2 }

\* the argument list of line 207, after line 206
CfCommand == (IF in_place THEN << InPlaceOpt >> ELSE << >>) \o new_cf_args

\* the temporary files after clang-format -i has rewritten those it was given
TmpFormatted(style) ==
    [n \in 1..Len(tmp) |->
        IF \E k \in 1..Len(new_cf_args) : new_cf_args[k] = TmpPath(n)
        THEN [tmp[n] EXCEPT !.text = Format(style, tmp[n].text)]
        ELSE tmp[n]]

\* the user's files after clang-format -i has rewritten those it was given
DiskFormatted(style) ==
    [f \in Files |->
        IF \E k \in 1..Len(new_cf_args) : new_cf_args[k] = f
        THEN Format(style, disk[f])
        ELSE disk[f]]

\* what clang-format prints without -i: each file it was given, formatted
RECURSIVE FormatterPrints(_, _)
FormatterPrints(style, k) ==
    IF k > Len(new_cf_args) THEN << >>
    ELSE LET a == new_cf_args[k]
             text == IF a.dir = "tmp" THEN Format(style, tmp[a.n].text)
                     ELSE IF isfile(a) THEN Format(style, disk[a])
                     ELSE << >>
         IN  text \o FormatterPrints(style, k + 1)

\* lines 205-212: the formatter's process, and what it did to the files
RunFormatter(code, style) ==
    /\ new_cf_args' = CfCommand
    /\ cf_cmd' = Append(cf_cmd, CfCommand)
    /\ cf_returncode' = << code >>
    /\ tmp' = IF in_place THEN TmpFormatted(style) ELSE tmp
    /\ disk' = IF in_place THEN DiskFormatted(style) ELSE disk

\* one loop instead of two: each entry is written back as soon as it is turned back
NextStepFused(loop, k, n) ==
    IF loop = "reverse"
    THEN [pc |-> "commit_open", idx |-> k]
    ELSE IF k < n THEN [pc |-> "reverse", idx |-> k + 1]
         ELSE [pc |-> "exit", idx |-> k]

\* the loops of lines 227 and 234: what follows entry k of n, in loop `loop`
NextStep(loop, k, n) ==
    IF loop = "reverse"
    THEN IF k < n THEN [pc |-> "reverse", idx |-> k + 1]
         ELSE [pc |-> "commit_open", idx |-> 1]
    ELSE IF k < n THEN [pc |-> "commit_open", idx |-> k + 1]
         ELSE [pc |-> "exit", idx |-> k]

\* lines 223-225 and 238-240: what real_main does with a formatter that succeeded
AfterFormatter(printed) ==
    /\ cf_stdout' = printed
    /\ IF in_place
       THEN /\ stdout' = stdout \o printed
            /\ pc' = IF tmp_norm_to_tmp_logos = << >> THEN "exit" ELSE "reverse"
            /\ idx' = 1
       ELSE /\ stdout' = stdout
            /\ pc' = "stream"
            /\ idx' = idx

\* lines 209-212, 223-225: the formatter exits with 0
InvokeOK(style) ==
    /\ pc = "invoke"
    /\ RunFormatter(0, style)
    /\ AfterFormatter(IF in_place THEN << >> ELSE FormatterPrints(style, 1))
    /\ UNCHANGED << mvars, args, version, in_place, save_temps, workspace,
                    tmp_norm_to_tmp_logos, tmp_logos_to_orig_logos, rc, outcome,
                    failed_at, disk0, opens, writes, transforms, reversed >>

\* the generic failure code instead of the formatter's
GenericFailureReturn(code) == 1

\* line 218: return e.returncode
CalledProcessErrorReturn(code) == code

\* subprocess.run without check=True: the exit code is not looked at
InvokeFailedUnchecked(code, style) ==
    /\ pc = "invoke"
    /\ RunFormatter(code, style)
    /\ AfterFormatter(IF in_place THEN << >> ELSE FormatterPrints(style, 1))
    /\ UNCHANGED << mvars, args, version, in_place, save_temps, workspace,
                    tmp_norm_to_tmp_logos, tmp_logos_to_orig_logos, rc, outcome,
                    failed_at, disk0, opens, writes, transforms, reversed >>

\* lines 213-218: the formatter exits with another code, CalledProcessError
InvokeFailed(code, style) ==
    /\ pc = "invoke"
    /\ RunFormatter(code, style)
    /\ Return(CalledProcessErrorReturn(code), "formatter_failed")
    /\ UNCHANGED << mvars, args, version, in_place, save_temps, idx,
                    tmp_norm_to_tmp_logos, tmp_logos_to_orig_logos, cf_stdout,
                    stdout, failed_at, disk0, opens, writes, transforms,
                    reversed >>

\* lines 219-222: subprocess.run raises something else.  The handler reads
\* cf_res, which was never bound, so it raises in turn, and main returns.
InvokeRaised ==
    /\ pc = "invoke"
    /\ new_cf_args' = CfCommand
    /\ failed_at' = pc
    /\ Return(MainReturn("UnboundLocalError"), "invocation_error")
    /\ UNCHANGED << mvars, args, version, in_place, save_temps, idx, disk, tmp,
                    tmp_norm_to_tmp_logos, tmp_logos_to_orig_logos, cf_cmd,
                    cf_returncode, cf_stdout, stdout, disk0, opens, writes,
                    transforms, reversed >>

\* lines 227-232: one entry of tmp_norm_to_tmp_logos is turned back into Logos
ReverseEntry ==
    /\ pc = "reverse"
    /\ LET tmp_norm == tmp_norm_to_tmp_logos[idx][1]
           tmp_logos == tmp_norm_to_tmp_logos[idx][2]
           next == NextStep("reverse", idx, Len(tmp_norm_to_tmp_logos))
       IN  /\ tmp' = [tmp EXCEPT ![tmp_logos].text = norm_to_logos(tmp[tmp_norm].text)]
           /\ reversed' = reversed \cup { tmp_logos }
           /\ pc' = next.pc
           /\ idx' = next.idx
    /\ UNCHANGED << mvars, args, version, in_place, save_temps, disk, workspace,
                    new_cf_args, tmp_norm_to_tmp_logos, tmp_logos_to_orig_logos,
                    cf_cmd, cf_returncode, cf_stdout, stdout, rc, outcome,
                    failed_at, disk0, opens, writes, transforms >>

\* line 236: open(orig_logos, "w") empties the original file
CommitOpen ==
    /\ pc = "commit_open"
    /\ LET orig_logos == tmp_logos_to_orig_logos[idx][2]
       IN  /\ disk' = [disk EXCEPT ![orig_logos] = << >>]
           /\ opens' = [opens EXCEPT ![orig_logos] = @ + 1]
    /\ pc' = "commit_write"
    /\ UNCHANGED << mvars, args, version, in_place, save_temps, idx, workspace, tmp,
                    new_cf_args, tmp_norm_to_tmp_logos, tmp_logos_to_orig_logos,
                    cf_cmd, cf_returncode, cf_stdout, stdout, rc, outcome,
                    failed_at, disk0, writes, transforms, reversed >>

\* line 237: ol.write(tl.read()), and the files are closed
CommitWrite ==
    /\ pc = "commit_write"
    /\ LET tmp_logos == tmp_logos_to_orig_logos[idx][1]
           orig_logos == tmp_logos_to_orig_logos[idx][2]
           next == NextStep("commit", idx, Len(tmp_logos_to_orig_logos))
       IN  /\ disk' = [disk EXCEPT ![orig_logos] = tmp[tmp_logos].text]
           /\ writes' = [writes EXCEPT ![orig_logos] = @ + 1]
           /\ pc' = next.pc
           /\ idx' = next.idx
    /\ UNCHANGED << mvars, args, version, in_place, save_temps, workspace, tmp,
                    new_cf_args, tmp_norm_to_tmp_logos, tmp_logos_to_orig_logos,
                    cf_cmd, cf_returncode, cf_stdout, stdout, rc, outcome,
                    failed_at, disk0, opens, transforms, reversed >>

\* lines 239-246: the formatter's output is turned back into Logos and printed
StreamOut ==
    /\ pc = "stream"
    /\ stdout' = stdout \o norm_to_logos(cf_stdout)
    /\ pc' = "exit"
    /\ UNCHANGED << mvars, args, version, in_place, save_temps, idx, disk, workspace,
                    tmp, new_cf_args, tmp_norm_to_tmp_logos,
                    tmp_logos_to_orig_logos, cf_cmd, cf_returncode, cf_stdout,
                    rc, outcome, failed_at, disk0, opens, writes, transforms,
                    reversed >>

\* line 247: return 0, through the with statement's __exit__
Finish ==
    /\ pc = "exit"
    /\ Return(0, "success")
    /\ UNCHANGED << mvars, args, version, in_place, save_temps, idx, disk, tmp,
                    new_cf_args, tmp_norm_to_tmp_logos, tmp_logos_to_orig_logos,
                    cf_cmd, cf_returncode, cf_stdout, stdout, failed_at, disk0,
                    opens, writes, transforms, reversed >>

\* the steps that read or write a file, or print: each can raise (OSError,
\* UnicodeDecodeError), and nothing in real_main catches it
CanRaise ==
    \/ pc \in { "reverse", "commit_open", "commit_write", "stream" }
    \/ pc = "classify" /\ get_logos_path(args[idx]) = "path"

\* lines 323-325: the step the run is at raises, and main returns 1
Fault ==
    /\ CanRaise
    /\ failed_at' = pc
    /\ Return(MainReturn("Exception"), "fault")
    /\ UNCHANGED << mvars, args, version, in_place, save_temps, idx, disk, tmp,
                    new_cf_args, tmp_norm_to_tmp_logos, tmp_logos_to_orig_logos,
                    cf_cmd, cf_returncode, cf_stdout, stdout, disk0, opens,
                    writes, transforms, reversed >>

\* lines 326-327: the user interrupts the run, wherever it is
Interrupt ==
    /\ pc \notin { "done", "idle" }
    /\ failed_at' = pc
    /\ Return(MainReturn("KeyboardInterrupt"), "interrupted")
    /\ UNCHANGED << mvars, args, version, in_place, save_temps, idx, disk, tmp,
                    new_cf_args, tmp_norm_to_tmp_logos, tmp_logos_to_orig_logos,
                    cf_cmd, cf_returncode, cf_stdout, stdout, disk0, opens,
                    writes, transforms, reversed >>

Next ==
    \/ ShowVersion
    \/ CreateWorkspace
    \/ PassThroughArg
    \/ PermissionDenied
    \/ TransformArg
    \/ \E style \in FormatStyles : InvokeOK(style)
    \/ \E code \in FormatterCodes, style \in FormatStyles :
           InvokeFailed(code, style)
    \/ InvokeRaised
    \/ ReverseEntry
    \/ CommitOpen
    \/ CommitWrite
    \/ StreamOut
    \/ Finish
    \/ Fault
    \/ Interrupt

Spec == Init /\ [][Next]_vars

(***************************************************************************)
(* The token mapper's specification.                                       *)
(***************************************************************************)
MapInit ==
    /\ PipelineIdle
    /\ input \in Texts
    /\ norm = << >>
    /\ back = << >>
    /\ rev = << >>
    /\ mpc = "read"

\* logos_to_norm(logos_file, norm_file)
Forward ==
    /\ mpc = "read"
    /\ norm' = logos_to_norm(input)
    /\ mpc' = "normed"
    /\ UNCHANGED << pvars, input, back, rev >>

\* norm_to_logos(norm_file, logos_file) on what logos_to_norm wrote
Backward ==
    /\ mpc = "normed"
    /\ back' = norm_to_logos(norm)
    /\ mpc' = "done"
    /\ UNCHANGED << pvars, input, norm, rev >>

\* norm_to_logos(norm_file, logos_file) on the text as it is
ReverseOnly ==
    /\ mpc = "read"
    /\ rev' = norm_to_logos(input)
    /\ mpc' = "reversed"
    /\ UNCHANGED << pvars, input, norm, back >>

MapNext ==
    \/ Forward
    \/ Backward
    \/ ReverseOnly

MapSpec == MapInit /\ [][MapNext]_vars

(***************************************************************************)
(* What the claims about the token mapper speak of.                        *)
(***************************************************************************)
SpecialTokens == { specialFilterList[k] : k \in 1..Len(specialFilterList) }

PlainTokens == { filterList[k] : k \in 1..Len(filterList) }

\* a directive of `tokens` stands at position i of s as a whole word
DirectiveAt(s, tokens, i) == \E t \in tokens : PatMatchesAt(t, s, i)

\* the positions of s where a directive of `tokens` stands as a whole word
Directives(s, tokens) == { i \in 1..Len(s) : DirectiveAt(s, tokens, i) }

\* the positions of the character c in s
Positions(s, c) == { i \in 1..Len(s) : s[i] = c }

\* s with the "%" of each whole-word directive replaced by the marker's prefix
RECURSIVE MarkAllFrom(_, _)
MarkAllFrom(s, i) ==
    IF i > Len(s) THEN << >>
    ELSE (IF DirectiveAt(s, SpecialTokens \cup PlainTokens, i)
          THEN Marker ELSE << s[i] >>) \o MarkAllFrom(s, i + 1)

MarkAll(s) == MarkAllFrom(s, 1)

\* n terminators
Semis(n) == [k \in 1..n |-> ";"]

\* the text is one line: readlines yields no second one
SingleLine(s) == Len(readlines(s)) <= 1

\* the terminated directives whose spelling logos_to_norm finds in the line:
\* those that occur where no non-terminated directive stands
SpellingsPresent(s) ==
    { t \in SpecialTokens :
        \E i \in 1..Len(s) : OccursAt(s, t, i) /\ ~DirectiveAt(s, PlainTokens, i) }

\* C6 (as claimed, for the texts in which every "%" starts a non-terminated
\* directive): a text whose only directives are non-terminated ones and
\* which holds no marker comes back from logos_to_norm and norm_to_logos
\* exactly as it was, terminators included.
C6_RoundTripPlain ==
    ( /\ mpc = "done"
      /\ ~StrIn(Marker, input)
      /\ Directives(input, PlainTokens) # { }
      /\ Positions(input, "%") = Directives(input, PlainTokens) )
    => back = input

\* C7 (as claimed): a line with exactly one terminated directive that ends
\* with a terminator of the user's is normalised to its marker form plus one
\* terminator, and comes back exactly as it was, its terminator kept.
C7_TerminatorKept ==
    ( /\ mpc = "done"
      /\ ~StrIn(<< "\n" >>, input)
      /\ ~StrIn(Marker, input)
      /\ Cardinality(Directives(input, SpecialTokens)) = 1
      /\ Positions(input, "%") = Directives(input, SpecialTokens)
      /\ input[Len(input)] = ";" )
    => /\ norm = MarkAll(input) \o Semicolon
       /\ back = input

\* C7 (amended): a line without a line feed and without a marker, whose only
\* "%" starts a terminated directive and which ends with a terminator of the
\* user's, is normalised to its marker form plus one terminator, and comes
\* back with the directive restored and every terminator gone, the user's too.
C7_TerminatorLost ==
    ( /\ mpc = "done"
      /\ ~StrIn(<< "\n" >>, input)
      /\ ~StrIn(Marker, input)
      /\ Cardinality(Directives(input, SpecialTokens)) = 1
      /\ Positions(input, "%") = Directives(input, SpecialTokens)
      /\ input[Len(input)] = ";" )
    => /\ norm = StrReplace(input, Percent, Marker) \o Semicolon
       /\ back = StrReplace(input, Semicolon, << >>)

\* the case of C7 has happened: "%hook ;" went forth and back, and lost its ";"
C7_Witness ==
    /\ mpc = "done"
    /\ input = specialFilterList[1] \o << " ", ";" >>
    /\ back = specialFilterList[1] \o << " " >>

\* C8 (as claimed): a text with no catalog directive as a whole word and no
\* marker is written unchanged by logos_to_norm and by norm_to_logos.
C8_PassThrough ==
    ( /\ mpc \in { "normed", "reversed" }
      /\ ~StrIn(Marker, input)
      /\ Directives(input, SpecialTokens \cup PlainTokens) = { } )
    => /\ mpc = "normed" => norm = input
       /\ mpc = "reversed" => rev = input

\* C10 (as claimed, for the lines in which every "%" starts a terminated
\* directive): a line with n terminated directive tokens is normalised to the
\* line with each token replaced by its marker, followed by exactly n terminators.
C10_AppendPerOccurrence ==
    ( /\ mpc = "normed"
      /\ SingleLine(input)
      /\ Directives(input, SpecialTokens) # { }
      /\ Positions(input, "%") = Directives(input, SpecialTokens) )
    => norm = MarkAll(input) \o Semis(Cardinality(Directives(input, SpecialTokens)))

\* C10 (amended): a line is normalised to the line with each whole-word
\* directive replaced by its marker, followed by one terminator for each
\* distinct terminated directive whose spelling occurs in it, however often
\* it occurs.
C10_AppendPerDirective ==
    (mpc = "normed" /\ SingleLine(input))
    => norm = MarkAll(input) \o Semis(Cardinality(SpellingsPresent(input)))

\* the case of C10 has happened: the same directive twice, one terminator appended
C10_Witness ==
    /\ mpc = "normed"
    /\ SingleLine(input)
    /\ Cardinality(Directives(input, { specialFilterList[1] })) = 2
    /\ norm = MarkAll(input) \o Semicolon

(***************************************************************************)
(* What the claims about the pipeline speak of.                            *)
(***************************************************************************)
\* the files get_logos_path recognises by their extension
LogosFiles == { f \in Files : f.ext \in logos_extensions }

\* nothing has opened or written the file, and its text is what it was
Untouched(f) == disk[f] = disk0[f] /\ opens[f] = 0 /\ writes[f] = 0

\* how many arguments name the file
TimesNamed(f) == Cardinality({ k \in 1..Len(args) : args[k] = f })

\* the formatter's arguments name, in the arguments' order, an intermediate
\* of its own for each Logos file and every other argument as it was
InArgumentOrder(cmd) ==
    /\ Len(cmd) = Len(args)
    /\ \A k \in 1..Len(args) :
           IF args[k] \in LogosFiles
           THEN /\ cmd[k].dir = "tmp"
                /\ cmd[k].n \in 1..Len(tmp)
                /\ tmp[cmd[k].n].kind = "norm"
                /\ cmd[k] = TmpPath(cmd[k].n)
                /\ cmd[k].stem = args[k].stem
                /\ cmd[k].ext = logos_extensions_to_normal_extensions(args[k].ext)
                /\ \A j \in 1..Len(args) : cmd[j] = cmd[k] => j = k
           ELSE cmd[k] = args[k]

\* C1: once the formatter has failed (a non-zero exit, or subprocess.run
\* raising), every original Logos file holds what it held at the start:
\* nothing was turned back and no original was opened or written.
C1_FailedFormatterKeepsOriginals ==
    (cf_returncode \notin { << >>, << 0 >> } \/ outcome = "invocation_error")
    => /\ \A f \in LogosFiles : Untouched(f)
       /\ reversed = { }

\* the case of C1 has happened: in-place mode, the formatter rewrote the
\* intermediate of a Logos file and then exited with a non-zero code
C1_Witness ==
    /\ pc = "done"
    /\ in_place
    /\ cf_returncode # << >>
    /\ cf_returncode[1] \in FormatterCodes
    /\ \E k \in 1..Len(tmp_norm_to_tmp_logos) :
           LET tmp_norm == tmp_norm_to_tmp_logos[k][1]
               orig_logos == tmp_logos_to_orig_logos[k][2]
           IN  tmp[tmp_norm].text # logos_to_norm(disk0[orig_logos])

\* C2: an original is opened or written only in in-place mode, after the
\* formatter succeeded and after its own second intermediate was written
\* whole by norm_to_logos; a failure while an entry is turned back leaves
\* every original as it was; in stream mode no file is written at all.
C2_OriginalsWrittenLast ==
    /\ \A f \in LogosFiles :
           ~Untouched(f)
           => /\ in_place
              /\ cf_returncode = << 0 >>
              /\ pc \in { "commit_open", "commit_write", "exit", "done" }
              /\ \E k \in 1..Len(tmp_logos_to_orig_logos) :
                     /\ tmp_logos_to_orig_logos[k][2] = f
                     /\ tmp_logos_to_orig_logos[k][1] \in reversed
                     /\ tmp[tmp_norm_to_tmp_logos[k][2]].text =
                            norm_to_logos(tmp[tmp_norm_to_tmp_logos[k][1]].text)
    /\ failed_at = "reverse" => \A f \in LogosFiles : Untouched(f)
    /\ ~in_place => \A f \in Files : Untouched(f)

\* the case of C2 has happened: the second entry failed to be turned back,
\* after the first one had been
C2_Witness ==
    /\ pc = "done"
    /\ outcome = "fault"
    /\ failed_at = "reverse"
    /\ idx = 2
    /\ reversed # { }

\* C3 (as claimed): at every moment each original Logos file holds what it
\* held at the start or the whole text of a second intermediate of its own.
C3_AtomicPerFile ==
    \A f \in LogosFiles :
        \/ disk[f] = disk0[f]
        \/ \E k \in 1..Len(tmp_logos_to_orig_logos) :
               /\ tmp_logos_to_orig_logos[k][2] = f
               /\ tmp_logos_to_orig_logos[k][1] \in reversed
               /\ disk[f] = tmp[tmp_logos_to_orig_logos[k][1]].text

\* C4 (as claimed): PermissionError is raised before the temporary directory
\* is made, before any intermediate is made and before any file is normalised.
C4_DeniedBeforeWorkspace ==
    outcome = "permission_error"
    => /\ workspace = "none"
       /\ tmp = << >>
       /\ \A f \in Files : transforms[f] = 0

\* C4 (amended): PermissionError is raised inside the temporary directory's
\* with statement (the directory was made, and its __exit__ has run), after
\* each Logos file named earlier was given its intermediate and normalised,
\* and before the file at fault is given one, before the formatter runs and
\* before any original is written; no file that cannot be read or written is
\* ever normalised.
C4_DeniedInsideWorkspace ==
    /\ outcome = "permission_error"
       => /\ workspace \in { "deleted", "kept" }
          /\ save_temps => workspace = "kept"
          /\ args[idx] \in LogosFiles
          /\ ~(access_R_OK(args[idx]) /\ access_W_OK(args[idx]))
          /\ \A f \in LogosFiles :
                 transforms[f] =
                     Cardinality({ k \in 1..(idx - 1) : args[k] = f })
          /\ Cardinality({ n \in 1..Len(tmp) : tmp[n].kind = "norm" }) =
                 Cardinality({ k \in 1..(idx - 1) : args[k] \in LogosFiles })
          /\ cf_cmd = << >>
          /\ \A f \in Files : Untouched(f)
    /\ \A f \in LogosFiles :
           transforms[f] > 0 => access_R_OK(f) /\ access_W_OK(f)

\* the case of C4 has happened: the file at fault came second, after a Logos
\* file that was already normalised into the temporary directory
C4_Witness ==
    /\ outcome = "permission_error"
    /\ idx = 2
    /\ tmp # << >>
    /\ workspace # "none"

\* C5 (as claimed): main returns 0 exactly when the run succeeded, the
\* formatter's code when the formatter exited with one, 1 when anything else
\* went wrong, and nothing else.
C5_ExitCodes ==
    /\ pc # "done" => rc = << >>
    /\ pc = "done"
       => /\ Len(rc) = 1
          /\ rc = << 0 >> <=> outcome \in { "success", "version" }
          /\ cf_returncode \notin { << >>, << 0 >> } => rc = cf_returncode
          /\ outcome \in { "invocation_error", "fault", "permission_error" }
             => rc = << 1 >>
          /\ rc[1] \in { 0, 1 } \cup FormatterCodes

\* C5 (amended): main returns 0 exactly when the run succeeded or the user
\* interrupted it, the formatter's code when the formatter exited with one,
\* 1 when anything else went wrong, and nothing else.
C5_ExitCodesInterrupted ==
    /\ pc # "done" => rc = << >>
    /\ pc = "done"
       => /\ Len(rc) = 1
          /\ rc = << 0 >> <=> outcome \in { "success", "version", "interrupted" }
          /\ cf_returncode \notin { << >>, << 0 >> } => rc = cf_returncode
          /\ outcome \in { "invocation_error", "fault", "permission_error" }
             => rc = << 1 >>
          /\ rc[1] \in { 0, 1 } \cup FormatterCodes

\* the case of C5 has happened: interrupted while the formatter ran, main returned 0
C5_Witness ==
    /\ pc = "done"
    /\ outcome = "interrupted"
    /\ failed_at = "invoke"
    /\ rc = << 0 >>

\* C9 (as claimed): in a run that succeeded, each Logos file the arguments
\* name was normalised exactly once and, in in-place mode, written exactly
\* once, and the formatter ran exactly once.
C9_EachFileOnce ==
    /\ Len(cf_cmd) <= 1
    /\ (pc = "done" /\ outcome = "success")
       => /\ Len(cf_cmd) = 1
          /\ \A f \in LogosFiles :
                 TimesNamed(f) > 0
                 => /\ transforms[f] = 1
                    /\ in_place => writes[f] = 1

\* C9 (amended): in a run that succeeded, each argument that names a Logos
\* file was normalised exactly once into an intermediate of its own, so a
\* file is normalised, and in in-place mode written, once for each argument
\* that names it; the formatter ran exactly once, over the intermediates and
\* the other arguments in the arguments' order (after -i in in-place mode).
C9_EachArgumentOnce ==
    /\ Len(cf_cmd) <= 1
    /\ (pc = "done" /\ outcome = "success")
       => /\ Len(cf_cmd) = 1
          /\ IF in_place
             THEN /\ Head(cf_cmd[1]) = InPlaceOpt
                  /\ InArgumentOrder(Tail(cf_cmd[1]))
             ELSE InArgumentOrder(cf_cmd[1])
          /\ \A f \in LogosFiles :
                 /\ transforms[f] = TimesNamed(f)
                 /\ writes[f] = IF in_place THEN TimesNamed(f) ELSE 0
                 /\ opens[f] = writes[f]

\* the case of C9 has happened: a file named twice, normalised and written twice
C9_Witness ==
    /\ pc = "done"
    /\ outcome = "success"
    /\ in_place
    /\ TimesNamed(A_xm) = 2
    /\ transforms[A_xm] = 2
    /\ writes[A_xm] = 2

====
